---- MODULE Spec2Model ----
(***************************************************************************)
(* The media reference pipeline of the journaling client: the markdown     *)
(* editor's text buffer with its upload placeholders                       *)
(* (components/editor/MarkdownEditor.tsx), the page editor that uploads    *)
(* the files and keeps the signed-URL map (page-editor/Editor.tsx), and    *)
(* the API service (services/api.ts).                                      *)
(*                                                                         *)
(* A JavaScript string is a sequence of one-character strings.  The text   *)
(* buffer is a sequence of tokens, each token a JavaScript string: one     *)
(* typed character, or one whole image syntax "![alt](ref)" written by a   *)
(* template literal of the code.  The user edits at token boundaries.      *)
(***************************************************************************)
EXTENDS Integers, Sequences, FiniteSets, TLC

\* ------------------------------------------------------------------ bounds

\* User edits (keystrokes) per behaviour.
MaxEdits == 2
\* File selections (upload batches) per behaviour.
MaxBatches == 1
\* Clock steps per behaviour.
MaxTicks == 1
\* One clock step, in milliseconds.
TickMs == 40000
\* Lifetime the remote signer gives a URL, in milliseconds.
TtlMs == 90000
\* File selections per behaviour when the user does not type.
MaxConcurrent == 2
\* The entries the server holds at most, and the pages and page sizes asked for.
MaxEntries == 4
MaxPage == 3
MaxPageSize == 3
\* Save requests per behaviour.
MaxSaves == 2
\* getSignedUrls calls of one viewer per behaviour.
MaxViewerCalls == 3

\* ------------------------------------------------------------- JS strings

NL == <<"\n">>
SP == <<" ">>

DigitChars == <<"0", "1", "2", "3", "4", "5", "6", "7", "8", "9">>

LowerChars ==
  <<"a", "b", "c", "d", "e", "f", "g", "h", "i", "j", "k", "l", "m",
    "n", "o", "p", "q", "r", "s", "t", "u", "v", "w", "x", "y", "z">>

UpperChars ==
  <<"A", "B", "C", "D", "E", "F", "G", "H", "I", "J", "K", "L", "M",
    "N", "O", "P", "Q", "R", "S", "T", "U", "V", "W", "X", "Y", "Z">>

Range(s) == {s[i] : i \in 1..Len(s)}

DigitSet == Range(DigitChars)
WordSet == Range(DigitChars) \cup Range(LowerChars) \cup Range(UpperChars) \cup {"_"}

\* \d of a regular expression.
IsDigit(c) == c \in DigitSet

\* \w of a regular expression.
IsWord(c) == c \in WordSet

\* A number formatted by a template literal, `${n}`.
RECURSIVE Digits(_)
Digits(n) ==
  IF n < 10 THEN <<DigitChars[n + 1]>>
  ELSE Digits(n \div 10) \o <<DigitChars[(n % 10) + 1]>>

\* The JavaScript string as one TLA+ string.
RECURSIVE Str(_)
Str(s) == IF s = <<>> THEN "" ELSE Head(s) \o Str(Tail(s))

\* The text of a token sequence: its tokens one after the other.
RECURSIVE Flatten(_)
Flatten(toks) == IF toks = <<>> THEN <<>> ELSE Head(toks) \o Flatten(Tail(toks))

\* String.prototype.startsWith
StartsWith(s, p) == Len(s) >= Len(p) /\ SubSeq(s, 1, Len(p)) = p

\* String.prototype.endsWith
EndsWith(s, p) == Len(s) >= Len(p) /\ SubSeq(s, Len(s) - Len(p) + 1, Len(s)) = p

\* String.prototype.substring(0, p) and substring(p), p counted in tokens.
SubstringTo(s, p) == SubSeq(s, 1, p)
SubstringFrom(s, p) == SubSeq(s, p + 1, Len(s))

\* The index of the first occurrence of pat in s at or after i, 0 when none.
RECURSIVE IndexFrom(_, _, _)
IndexFrom(s, pat, i) ==
  IF i + Len(pat) - 1 > Len(s) THEN 0
  ELSE IF SubSeq(s, i, i + Len(pat) - 1) = pat THEN i
  ELSE IndexFrom(s, pat, i + 1)

\* String.prototype.replace(pat, rep) with a string pattern: the first
\* occurrence only; the string unchanged when there is none.
ReplaceFirst(s, pat, rep) ==
  LET i == IndexFrom(s, pat, 1)
  IN IF i = 0 THEN s
     ELSE SubSeq(s, 1, i - 1) \o rep \o SubSeq(s, i + Len(pat), Len(s))

\* url.split("/").pop() || url
LastSegment(url) ==
  LET slashes == {i \in 1..Len(url) : url[i] = "/"}
      last == IF slashes = {} THEN 0
              ELSE CHOOSE i \in slashes : \A j \in slashes : j <= i
      seg == SubSeq(url, last + 1, Len(url))
  IN IF seg = <<>> THEN url ELSE seg

\* --------------------------------------------------------------- literals

\* "![Uploading "
UploadingOpen == <<"!", "[", "U", "p", "l", "o", "a", "d", "i", "n", "g", " ">>
\* "...]("
UploadingMid == <<".", ".", ".", "]", "(">>
\* "uploading-"
UploadingPrefix == <<"u", "p", "l", "o", "a", "d", "i", "n", "g", "-">>
\* "![image]("
ImageOpen == <<"!", "[", "i", "m", "a", "g", "e", "]", "(">>
\* "http://" and "https://"
HttpScheme == <<"h", "t", "t", "p", ":", "/", "/">>
HttpsScheme == <<"h", "t", "t", "p", "s", ":", "/", "/">>
\* The inline "Uploading..." picture of the preview, a data: URL.
LoadingDataUrl == <<"d", "a", "t", "a", ":", "i", "m", "a", "g", "e", "/", "s", "v", "g">>

\* ------------------------------------------------- MarkdownEditor, pure part

\* A placeholder that leaves out the upload's id.
PlaceholderByIndex(name, uploadId, i) ==
  UploadingOpen \o name \o UploadingMid \o UploadingPrefix \o Digits(i) \o <<")">>

\* `![Uploading ${file.name}...](uploading-${uploadId}-${i})`, i from 0.
Placeholder(name, uploadId, i) ==
  UploadingOpen \o name \o UploadingMid \o UploadingPrefix
    \o Digits(uploadId) \o <<"-">> \o Digits(i) \o <<")">>

\* `![image](${filenames[i]})`
ImageMarkdown(filename) == ImageOpen \o filename \o <<")">>

\* placeholderData: one placeholder per selected file, in selection order.
PlaceholderData(names, uploadId) ==
  [i \in 1..Len(names) |-> Placeholder(names[i], uploadId, i - 1)]

\* placeholderData.map(p => p.placeholder).join("\n"), as tokens.
RECURSIVE JoinLines(_)
JoinLines(toks) ==
  IF toks = <<>> THEN <<>>
  ELSE IF Len(toks) = 1 THEN toks
  ELSE <<Head(toks), NL>> \o JoinLines(Tail(toks))

\* A splice that forgets the line break after the placeholders.
InsertWithoutLineBreak(text, insertPosition, placeholders) ==
  SubstringTo(text, insertPosition) \o <<NL>> \o JoinLines(placeholders)
    \o SubstringFrom(text, insertPosition)

\* A splice that writes over the character after the cursor.
InsertOverNextCharacter(text, insertPosition, placeholders) ==
  SubstringTo(text, insertPosition) \o <<NL>> \o JoinLines(placeholders)
    \o <<NL>> \o SubstringFrom(text, insertPosition + 1)

\* contentWithPlaceholders: the placeholders spliced in at the cursor.
InsertPlaceholders(text, insertPosition, placeholders) ==
  SubstringTo(text, insertPosition) \o <<NL>> \o JoinLines(placeholders)
    \o <<NL>> \o SubstringFrom(text, insertPosition)

\* The success updater of setContent: each placeholder replaced by its image.
RECURSIVE ReplacePlaceholders(_, _, _)
ReplacePlaceholders(currentContent, placeholders, filenames) ==
  IF placeholders = <<>> THEN currentContent
  ELSE ReplacePlaceholders(
         ReplaceFirst(currentContent, <<Head(placeholders)>>,
                      <<ImageMarkdown(Head(filenames))>>),
         Tail(placeholders), Tail(filenames))

\* A failure updater that forgets the loop: the first placeholder only.
RemoveFirstPlaceholder(currentContent, placeholders) ==
  IF placeholders = <<>> THEN currentContent
  ELSE ReplaceFirst(currentContent, <<Head(placeholders), NL>>, <<>>)

\* The failure updater of setContent: each placeholder + "\n" replaced by "".
RECURSIVE RemovePlaceholders(_, _)
RemovePlaceholders(currentContent, placeholders) ==
  IF placeholders = <<>> THEN currentContent
  ELSE RemovePlaceholders(
         ReplaceFirst(currentContent, <<Head(placeholders), NL>>, <<>>),
         Tail(placeholders))

\* convertToMarkdownLineBreaks: split on "\n\n", inside each paragraph join
\* the lines with "  \n", join the paragraphs with "\n\n".
RECURSIVE convertToMarkdownLineBreaks(_)
convertToMarkdownLineBreaks(text) ==
  IF text = <<>> THEN <<>>
  ELSE IF Len(text) >= 2 /\ text[1] = NL /\ text[2] = NL
    THEN <<NL, NL>> \o convertToMarkdownLineBreaks(SubSeq(text, 3, Len(text)))
  ELSE IF text[1] = NL
    THEN <<SP, SP, NL>> \o convertToMarkdownLineBreaks(Tail(text))
  ELSE <<Head(text)>> \o convertToMarkdownLineBreaks(Tail(text))

\* The effect on [initialValue] after the first mount: the buffer is
\* overwritten only by an external value, one that is neither the buffer nor
\* its processed form.
SyncInitialValue(buffer, initialValue, lastInitialValue) ==
  IF /\ initialValue # lastInitialValue
     /\ initialValue # convertToMarkdownLineBreaks(buffer)
     /\ initialValue # buffer
  THEN initialValue
  ELSE buffer

\* ------------------------------------------------------- Editor, pure part

\* The first ")" of s at or after i, 0 when none.
RECURSIVE CloseFrom(_, _)
CloseFrom(s, i) ==
  IF i > Len(s) THEN 0 ELSE IF s[i] = ")" THEN i ELSE CloseFrom(s, i + 1)

\* The capture of /.*?\]\(([^)]+)\)/ on s from q: "." takes no line break, the
\* first "](" followed by a group that is not empty and is closed wins; ""
\* when there is no match.
RECURSIVE CaptureFrom(_, _)
CaptureFrom(s, q) ==
  IF q + 1 > Len(s) THEN <<>>
  ELSE IF s[q] = "]" /\ s[q + 1] = "("
    THEN LET close == CloseFrom(s, q + 2)
         IN IF close > q + 2 THEN SubSeq(s, q + 2, close - 1)
            ELSE CaptureFrom(s, q + 1)
  ELSE IF s[q] = "\n" THEN <<>>
  ELSE CaptureFrom(s, q + 1)

\* match[1] of the first match of /!\[.*?\]\(([^)]+)\)/ in s at or after p,
\* "" when there is none.
RECURSIVE ImageUrlFrom(_, _)
ImageUrlFrom(s, p) ==
  IF p + 1 > Len(s) THEN <<>>
  ELSE IF s[p] = "!" /\ s[p + 1] = "["
    THEN LET url == CaptureFrom(s, p + 2)
         IN IF url # <<>> THEN url ELSE ImageUrlFrom(s, p + 1)
  ELSE ImageUrlFrom(s, p + 1)

\* The image reference of a token.
ImageUrlOf(s) == ImageUrlFrom(s, 1)

\* The length of the run of digits at the start of s.
RECURSIVE DigitRunFrom(_, _)
DigitRunFrom(s, i) ==
  IF i > Len(s) \/ ~IsDigit(s[i]) THEN 0 ELSE 1 + DigitRunFrom(s, i + 1)

DigitRun(s) == DigitRunFrom(s, 1)

\* /^\d+\.\w+/.test(filename)
LooksLikeTimestamp(filename) ==
  LET n == DigitRun(filename)
  IN /\ n >= 1
     /\ Len(filename) >= n + 2
     /\ filename[n + 1] = "."
     /\ IsWord(filename[n + 2])

\* A deduplication that keeps the last occurrence of each filename.
RECURSIVE DedupKeepLast(_)
DedupKeepLast(s) ==
  IF s = <<>> THEN <<>>
  ELSE IF Head(s) \in Range(Tail(s)) THEN DedupKeepLast(Tail(s))
  ELSE <<Head(s)>> \o DedupKeepLast(Tail(s))

\* [...new Set(filenames)]: first occurrences, in order.
RECURSIVE Dedup(_)
Dedup(s) ==
  IF s = <<>> THEN <<>>
  ELSE LET front == Dedup(SubSeq(s, 1, Len(s) - 1))
           last == s[Len(s)]
       IN IF last \in Range(front) THEN front ELSE Append(front, last)

\* A scanner that takes every reference as it stands.
RECURSIVE ScanEveryReference(_)
ScanEveryReference(markdown) ==
  IF markdown = <<>> THEN <<>>
  ELSE LET url == ImageUrlOf(Head(markdown))
       IN (IF url = <<>> THEN <<>> ELSE <<url>>) \o ScanEveryReference(Tail(markdown))

\* The loop of extractImageFilenames, before the deduplication.
RECURSIVE ScanFilenames(_)
ScanFilenames(markdown) ==
  IF markdown = <<>> THEN <<>>
  ELSE LET url == ImageUrlOf(Head(markdown))
           filename == LastSegment(url)
           rest == ScanFilenames(Tail(markdown))
       IN IF url = <<>> THEN rest
          ELSE IF StartsWith(filename, UploadingPrefix) THEN rest
          ELSE IF LooksLikeTimestamp(filename) THEN <<filename>> \o rest
          ELSE rest

\* A scanner that returns every occurrence.
ScanEveryOccurrence(markdown) == ScanFilenames(markdown)

extractImageFilenames(markdown) == Dedup(ScanFilenames(markdown))

\* ------------------------------------------------------------ URL strings

\* A URL string, parsed: how many times API_BASE_URL was prefixed to it, the
\* rest of its path, and its "expires" query parameter.
NoExpires == [present |-> FALSE, value |-> <<>>]
ExpiresAt(value) == [present |-> TRUE, value |-> value]
RawUrl(path) == [base |-> 0, path |-> path, expires |-> NoExpires]

\* `${API_CONFIG.API_BASE_URL}${result.url}`
WithBaseUrl(url) == [url EXCEPT !.base = @ + 1]

\* Refresh if less than 1 minute left.
RefreshMarginMs == 60000

DigitValue(c) == CHOOSE d \in 0..9 : DigitChars[d + 1] = c

RECURSIVE LeadingValue(_, _)
LeadingValue(s, acc) ==
  IF s = <<>> \/ ~IsDigit(Head(s)) THEN acc
  ELSE LeadingValue(Tail(s), acc * 10 + DigitValue(Head(s)))

\* parseInt of an unsigned string: the value of its leading digits, NaN when
\* it has none.
parseInt(s) ==
  IF s = <<>> \/ ~IsDigit(Head(s)) THEN [nan |-> TRUE, val |-> 0]
  ELSE [nan |-> FALSE, val |-> LeadingValue(s, 0)]

\* url.searchParams.get("expires") || "0"
ExpiresParam(url) ==
  IF url.expires.present /\ url.expires.value # <<>> THEN url.expires.value
  ELSE <<"0">>

\* Date.now() > expires - 60000; a comparison with NaN is false.
ExpiresSoon(url, t) ==
  LET expires == parseInt(ExpiresParam(url))
  IN IF expires.nan THEN FALSE ELSE t > expires.val - RefreshMarginMs

\* The filter of fetchSignedUrls: no URL for the filename, or one that expires
\* within the margin.
IsMissing(filename, urlMap, t) ==
  IF filename \notin DOMAIN urlMap THEN TRUE
  ELSE ExpiresSoon(urlMap[filename], t)

missingFilenames(filenames, urlMap, t) ==
  LET Test(f) == IsMissing(f, urlMap, t)
  IN SelectSeq(filenames, Test)

\* getSignedUrls: filenames.map(getSignedUrl), one POST /media/sign, with the
\* body {filename}, for each filename.
SignRequests(filenames) ==
  [i \in 1..Len(filenames) |-> [filename |-> filenames[i]]]

\* newMap = new Map(urlMap); results.forEach(r => newMap.set(r.filename,
\* API_BASE_URL + r.url))
RECURSIVE SetAll(_, _)
SetAll(urlMap, results) ==
  IF results = <<>> THEN urlMap
  ELSE LET r == Head(results)
           next == [f \in DOMAIN urlMap \cup {r.filename} |->
                      IF f = r.filename THEN WithBaseUrl(r.url) ELSE urlMap[f]]
       IN SetAll(next, Tail(results))

\* A resolver that forgets the map.
urlTransformNoMap(url, urlMap) ==
  IF StartsWith(url, HttpScheme) \/ StartsWith(url, HttpsScheme) THEN RawUrl(url)
  ELSE IF StartsWith(url, UploadingPrefix) THEN RawUrl(LoadingDataUrl)
  ELSE RawUrl(url)

\* A resolver that looks the reference up in the map first.
urlTransformMapFirst(url, urlMap) ==
  IF url \in DOMAIN urlMap THEN urlMap[url]
  ELSE IF StartsWith(url, HttpScheme) \/ StartsWith(url, HttpsScheme) THEN RawUrl(url)
  ELSE IF StartsWith(url, UploadingPrefix) THEN RawUrl(LoadingDataUrl)
  ELSE RawUrl(url)

\* urlTransform of the editor's preview.
urlTransform(url, urlMap) ==
  IF StartsWith(url, HttpScheme) \/ StartsWith(url, HttpsScheme) THEN RawUrl(url)
  ELSE IF StartsWith(url, UploadingPrefix) THEN RawUrl(LoadingDataUrl)
  ELSE IF url \in DOMAIN urlMap THEN urlMap[url]
  ELSE RawUrl(url)

\* ------------------------------------------------------------ image files

\* isHEIC: by the lower-cased name's extension or by the MIME type.
Lower(c) ==
  IF c \in Range(UpperChars)
  THEN LowerChars[CHOOSE i \in 1..26 : UpperChars[i] = c]
  ELSE c

toLowerCase(s) == [i \in 1..Len(s) |-> Lower(s[i])]

isHEIC(file) ==
  \/ EndsWith(toLowerCase(file.name), <<".", "h", "e", "i", "c">>)
  \/ EndsWith(toLowerCase(file.name), <<".", "h", "e", "i", "f">>)
  \/ file.type \in {"image/heic", "image/heif"}

\* The position of the last "." of name, 0 when it has none.
LastDot(name) ==
  LET dots == {i \in 1..Len(name) : name[i] = "."}
  IN IF dots = {} THEN 0 ELSE CHOOSE i \in dots : \A j \in dots : j <= i

\* name.replace(/\.[^/.]+$/, '')
WithoutExtension(name) ==
  LET dot == LastDot(name)
  IN IF dot = 0 \/ dot = Len(name) \/ \E i \in (dot + 1)..Len(name) : name[i] = "/"
     THEN name
     ELSE SubSeq(name, 1, dot - 1)

\* originalFile.name.split('.').pop() || 'jpg'
Extension(name) ==
  LET ext == SubSeq(name, LastDot(name) + 1, Len(name))
  IN IF ext = <<>> THEN <<"j", "p", "g">> ELSE ext

\* .replace(/[^a-z0-9]+/g, '-')
IsSlugChar(c) == c \in Range(LowerChars) \cup DigitSet
RECURSIVE DashRuns(_, _)
DashRuns(s, inRun) ==
  IF s = <<>> THEN <<>>
  ELSE IF IsSlugChar(Head(s)) THEN <<Head(s)>> \o DashRuns(Tail(s), FALSE)
  ELSE IF inRun THEN DashRuns(Tail(s), TRUE)
  ELSE <<"-">> \o DashRuns(Tail(s), TRUE)

\* .replace(/^-+|-+$/g, '')
RECURSIVE TrimDashes(_)
TrimDashes(s) ==
  IF s = <<>> THEN <<>>
  ELSE IF Head(s) = "-" THEN TrimDashes(Tail(s))
  ELSE IF s[Len(s)] = "-" THEN TrimDashes(SubSeq(s, 1, Len(s) - 1))
  ELSE s

\* generateUniqueFilename for a file of this name, Date.now() = timestamp and
\* Math.random().toString(36).substring(2, 8) = randomStr.
generateUniqueFilename(name, timestamp, randomStr) ==
  LET trimmed == TrimDashes(DashRuns(toLowerCase(WithoutExtension(name)), FALSE))
      sanitized == SubSeq(trimmed, 1, IF Len(trimmed) < 30 THEN Len(trimmed) ELSE 30)
  IN Digits(timestamp) \o <<"-">> \o randomStr \o <<"-">> \o sanitized
       \o <<".">> \o Extension(name)

\* The name of fileToProcess: the file's own, or the one convertHEICtoJPEG
\* gives the converted file.
ProcessedName(file) ==
  IF isHEIC(file) THEN WithoutExtension(file.name) \o <<".", "j", "p", "g">>
  ELSE file.name

\* What Math.random().toString(36).substring(2, 8) may give.
RandomStrs == {<<"a", "b", "1", "2", "x", "9">>, <<"7">>, <<>>}

\* What the environment does to each file of one processImages call:
\* whether heic2any converts it (asked of HEIC files only) and whether
\* imageCompression compresses it.
NormalizerOutcomes(n) == [1..n -> [converts : BOOLEAN, compresses : BOOLEAN]]

\* A normalizer that leaves out a file it cannot convert.
RECURSIVE processImagesSkipsFailed(_, _)
processImagesSkipsFailed(files, outcomes) ==
  IF files = <<>> THEN [ok |-> TRUE, processed |-> <<>>]
  ELSE LET file == Head(files)
           rest == processImagesSkipsFailed(Tail(files), Tail(outcomes))
       IN IF isHEIC(file) /\ ~Head(outcomes).converts THEN rest
          ELSE [ok |-> rest.ok,
                processed |->
                  <<[originalName |-> file.name, converted |-> isHEIC(file)]>>
                    \o rest.processed]

\* A normalizer that puts each processed file at the front of the list.
RECURSIVE processImagesReversed(_, _)
processImagesReversed(files, outcomes) ==
  IF files = <<>> THEN [ok |-> TRUE, processed |-> <<>>]
  ELSE LET file == Head(files)
       IN IF isHEIC(file) /\ ~Head(outcomes).converts
          THEN [ok |-> FALSE, processed |-> <<>>]
          ELSE LET rest == processImagesReversed(Tail(files), Tail(outcomes))
               IN IF ~rest.ok THEN rest
                  ELSE [ok |-> TRUE,
                        processed |->
                          rest.processed
                            \o <<[originalName |-> file.name, converted |-> isHEIC(file)]>>]

\* processImages: the files one after the other; a HEIC file is converted
\* first and a failed conversion is rethrown; compressImage returns the file
\* as it is when the compression fails; the processed files are pushed in
\* order.  ok is whether the promise resolves.
RECURSIVE processImages(_, _)
processImages(files, outcomes) ==
  IF files = <<>> THEN [ok |-> TRUE, processed |-> <<>>]
  ELSE LET file == Head(files)
       IN IF isHEIC(file) /\ ~Head(outcomes).converts
          THEN [ok |-> FALSE, processed |-> <<>>]
          ELSE LET rest == processImages(Tail(files), Tail(outcomes))
               IN IF ~rest.ok THEN rest
                  ELSE [ok |-> TRUE,
                        processed |->
                          <<[originalName |-> file.name, converted |-> isHEIC(file)]>>
                            \o rest.processed]

\* ------------------------------------------------------------- the inputs

\* "a.jpg", "b.jpg", "c.heic"
FileA == [name |-> <<"a", ".", "j", "p", "g">>, type |-> "image/jpeg"]
FileB == [name |-> <<"b", ".", "j", "p", "g">>, type |-> "image/jpeg"]
FileC == [name |-> <<"c", ".", "h", "e", "i", "c">>, type |-> "image/heic"]

\* What the user may select in one action.
Selections == {<<FileA, FileB>>, <<FileC>>}
\* The same, and a HEIC file after another file.
BatchSelections == Selections \cup {<<FileA, FileC>>}

\* "1690000001-ab12-photo.jpg"
PhotoJpg ==
  <<"1", "6", "9", "0", "0", "0", "0", "0", "0", "1", "-", "a", "b", "1", "2",
    "-", "p", "h", "o", "t", "o", ".", "j", "p", "g">>
\* "11.jpg", "22.png"
Pic1 == <<"1", "1", ".", "j", "p", "g">>
Pic2 == <<"2", "2", ".", "p", "n", "g">>

\* The canonical filename the remote store gives a file of the upload
\* uploadId, a fresh one for each upload: at 1000, "1690000001-ab12-a.jpg" for
\* a.jpg, "1690000002.jpg" for b.jpg and "1690009003.jpg" for c.heic.
StoredName(file, uploadId) ==
  IF file = FileA
    THEN Digits(1689999001 + uploadId)
           \o <<"-", "a", "b", "1", "2", "-", "a", ".", "j", "p", "g">>
  ELSE IF file = FileB
    THEN Digits(1689999002 + uploadId) \o <<".", "j", "p", "g">>
  ELSE Digits(1690008003 + uploadId) \o <<".", "j", "p", "g">>

\* media.path of the remote store: "media/" and the filename.
StoredPath(filename) == <<"m", "e", "d", "i", "a", "/">> \o filename

\* The "expires" parameter the remote signer may put on a URL at time t: an
\* absolute time in milliseconds, text that is no number, or none.
SignerExpires(t) ==
  {ExpiresAt(Digits(t + TtlMs)), ExpiresAt(<<"s", "o", "o", "n">>), NoExpires}

\* An entry loaded into the editor: nothing (a new entry), or a saved one.
SavedEntry ==
  <<ImageMarkdown(Pic1), ImageMarkdown(PhotoJpg), ImageMarkdown(Pic2), ImageMarkdown(Pic1)>>
\* "Hello world", editable before, between and after its two words
HelloWorld ==
  <<<<"H", "e", "l", "l", "o", " ">>, <<"w", "o", "r", "l", "d">>>>
InitialContents == {<<>>, HelloWorld, SavedEntry}

\* "https://cdn.example/33.gif" and "media/11.jpg"
FullUrlGif ==
  HttpsScheme \o <<"c", "d", "n", ".", "e", "x", "a", "m", "p", "l", "e", "/",
                   "3", "3", ".", "g", "i", "f">>
RelPic1 == <<"m", "e", "d", "i", "a", "/">> \o Pic1

\* Image syntaxes a markdown text may hold: with a filename, a full URL, a
\* relative path, a placeholder, a name of generateUniqueFilename.
ScanTokens ==
  {ImageMarkdown(Pic1), ImageMarkdown(Pic2), ImageMarkdown(FullUrlGif),
   ImageMarkdown(RelPic1), Placeholder(FileA.name, 1000, 0), ImageMarkdown(PhotoJpg)}

\* A saved entry with a filename, a full URL and a placeholder left over from
\* an earlier session.
MixedEntry ==
  <<ImageMarkdown(Pic1), ImageMarkdown(FullUrlGif), Placeholder(FileB.name, 999, 0)>>

\* The markdown texts given to the scanner: every text of at most two image
\* syntaxes, and one with repetitions.
ScanInputs ==
  {<<>>} \cup {<<a>> : a \in ScanTokens} \cup {<<a, b>> : a, b \in ScanTokens}
    \cup {<<ImageMarkdown(Pic2), ImageMarkdown(RelPic1), ImageMarkdown(FullUrlGif),
            ImageMarkdown(Pic2), ImageMarkdown(Pic1), Placeholder(FileA.name, 1000, 0)>>}

\* What one keystroke may insert.
TypedTokens == {<<"x">>, <<"y">>, NL}

\* ---------------------------------------------------------------- state

VARIABLES
  content,             \* MarkdownEditor: the text buffer
  lastInitialValue,    \* MarkdownEditor: lastInitialValue.current
  editorContent,       \* Editor: content, the value onChange reported last
  imageUrlMap,         \* Editor: filename -> signed URL
  uploadedImagePaths,  \* Editor: paths to save with the entry
  uploads,             \* the handleImageUpload calls, in selection order
  signing,             \* the fetchSignedUrls runs awaiting getSignedUrls
  lastPass,            \* what the latest run of the fetchSignedUrls effect did
  signErrors,          \* console.error calls of the fetchSignedUrls effect
  now,                 \* Date.now()
  edits,               \* keystrokes so far
  ticks,               \* clock steps so far
  isSaving,            \* Editor: isSaving
  error,               \* Editor: error, "" for null
  locationTag,         \* Editor: locationTag, "" for null
  saves,               \* the handleSave calls that sent a request
  entryLoad,           \* Editor: the fetchEntry of loadEntryData
  viewer,              \* one MarkdownViewer and the runs of its effect
  listing              \* the entries page: the server's list and what fetchEntries gave

\* The Editor's form and save state, and the state of the entries page.
saveVars == <<isSaving, locationTag, saves, entryLoad>>
listVars == <<viewer, listing>>

vars ==
  <<content, lastInitialValue, editorContent, imageUrlMap, uploadedImagePaths,
    uploads, signing, lastPass, signErrors, now, edits, ticks, error, saveVars, listVars>>

EmptyMap == [f \in {} |-> RawUrl(<<>>)]

\* The synchronous part of one run of the fetchSignedUrls effect on the
\* content c, with the map and the clock of that render.
PassOf(c, urlMap, t) ==
  LET filenames == IF c = <<>> THEN <<>> ELSE extractImageFilenames(c)
      missing == missingFilenames(filenames, urlMap, t)
  IN [content |-> c, filenames |-> filenames, missing |-> missing,
      requests |-> SignRequests(missing), at |-> t]

\* The run's await: nothing when no filename is missing.
Awaiting(pass, urlMap) ==
  IF pass.missing = <<>> THEN <<>>
  ELSE <<[urlMap |-> urlMap, missing |-> pass.missing, requests |-> pass.requests]>>

\* setContent(newBuffer) and onChange(convertToMarkdownLineBreaks(newBuffer)):
\* the Editor's content changes and its error message is cleared, its effect
\* runs a pass when the value is new, and the MarkdownEditor's effect on
\* initialValue runs.
ContentChanged(newBuffer, urlMap) ==
  LET markdownValue == convertToMarkdownLineBreaks(newBuffer)
      synced == SyncInitialValue(newBuffer, markdownValue, lastInitialValue)
  IN /\ content' = synced
     /\ error' = ""
     /\ lastInitialValue' = IF synced = newBuffer THEN lastInitialValue ELSE markdownValue
     /\ editorContent' = markdownValue
     /\ IF markdownValue = editorContent
        THEN UNCHANGED <<signing, lastPass>>
        ELSE LET pass == PassOf(markdownValue, urlMap, now)
             IN /\ lastPass' = pass
                /\ signing' = signing \o Awaiting(pass, urlMap)

EditorLoaded(contents) ==
  /\ content \in contents
  /\ lastInitialValue = content
  /\ editorContent = content
  /\ imageUrlMap = EmptyMap
  /\ uploadedImagePaths = <<>>
  /\ uploads = <<>>
  /\ signErrors = 0
  /\ now = 1000
  /\ lastPass = PassOf(content, EmptyMap, now)
  /\ signing = Awaiting(PassOf(content, EmptyMap, now), EmptyMap)
  /\ edits = 0
  /\ ticks = 0
  /\ error = ""

\* useState(false), useState(null) and useState([]) of the Editor; no request
\* of handleSave or loadEntryData is in flight.
FormIdle ==
  /\ isSaving = FALSE
  /\ locationTag = ""
  /\ saves = <<>>
  /\ entryLoad = "none"

\* No entries page is shown.
NoViewer ==
  [content |-> <<>>, mediaPaths |-> <<>>, imageUrlMap |-> EmptyMap,
   signing |-> <<>>, calls |-> 0]
NoListing ==
  [allEntries |-> <<>>,
   response |-> [entries |-> <<>>, total |-> 0, page |-> 0, pageSize |-> 0, hasMore |-> FALSE]]
NoEntriesPage == viewer = NoViewer /\ listing = NoListing

\* The editor with its entry loaded, nothing else on the screen.
Loaded(contents) == EditorLoaded(contents) /\ FormIdle /\ NoEntriesPage

Init == Loaded(InitialContents)

\* ------------------------------------------------------------- the user

\* handleContentChange after a keystroke that inserts tok before position p.
Type(p, tok) ==
  /\ edits < MaxEdits
  /\ edits' = edits + 1
  /\ ContentChanged(SubstringTo(content, p) \o <<tok>> \o SubstringFrom(content, p),
                    imageUrlMap)
  /\ UNCHANGED <<imageUrlMap, uploadedImagePaths, uploads, signErrors, now, ticks>>
  /\ UNCHANGED <<saveVars, listVars>>

\* handleContentChange after a keystroke that deletes the token at position p.
Delete(p) ==
  /\ edits < MaxEdits
  /\ edits' = edits + 1
  /\ ContentChanged(SubstringTo(content, p - 1) \o SubstringFrom(content, p),
                    imageUrlMap)
  /\ UNCHANGED <<imageUrlMap, uploadedImagePaths, uploads, signErrors, now, ticks>>
  /\ UNCHANGED <<saveVars, listVars>>

\* The clock moves on.
Tick ==
  /\ ticks < MaxTicks
  /\ ticks' = ticks + 1
  /\ now' = now + TickMs
  /\ UNCHANGED <<content, lastInitialValue, editorContent, imageUrlMap,
                 uploadedImagePaths, uploads, signing, lastPass, signErrors, edits>>
  /\ UNCHANGED <<error, saveVars, listVars>>

\* --------------------------------------------------------- image upload

NoMedia == [filename |-> <<>>, path |-> <<>>, url |-> RawUrl(<<>>)]

FileNames(files) == [i \in 1..Len(files) |-> files[i].name]

\* MarkdownEditor.handleImageUpload up to its await: the placeholders are
\* spliced in at the cursor and onImageUpload(files) is called; that call
\* (Editor.handleImageUpload, with the imageUrlMap of this render) awaits
\* processImages.  Two selections are more than a millisecond apart.
Select(files, insertPosition, limit) ==
  /\ Len(uploads) < limit
  /\ LET uploadId == now
         placeholders == PlaceholderData(FileNames(files), uploadId)
     IN /\ ContentChanged(InsertPlaceholders(content, insertPosition, placeholders),
                          imageUrlMap)
        /\ uploads' = Append(uploads,
             [uploadId |-> uploadId,
              files |-> files,
              insertPosition |-> insertPosition,
              placeholders |-> placeholders,
              contentWithPlaceholders |->
                InsertPlaceholders(content, insertPosition, placeholders),
              urlMap |-> imageUrlMap,
              editsAtSelect |-> edits,
              editsAtDone |-> edits,
              pc |-> "processing",
              processed |-> <<>>,
              transfers |-> [i \in 1..Len(files) |-> "idle"],
              media |-> [i \in 1..Len(files) |-> NoMedia]])
  /\ now' = now + 1
  /\ UNCHANGED <<imageUrlMap, uploadedImagePaths, signErrors, edits, ticks>>
  /\ UNCHANGED <<saveVars, listVars>>

SelectFiles(files, insertPosition) == Select(files, insertPosition, MaxBatches)

\* A failure path that records the files of the upload in the map anyway.
RejectedRecordsFiles(b) ==
  /\ ContentChanged(RemovePlaceholders(content, uploads[b].placeholders), imageUrlMap)
  /\ imageUrlMap' =
       SetAll(imageUrlMap,
              [i \in 1..Len(uploads[b].files) |->
                 LET filename == StoredName(uploads[b].files[i], uploads[b].uploadId)
                 IN [filename |-> filename,
                     url |-> [base |-> 0, path |-> filename,
                              expires |-> ExpiresAt(Digits(now + TtlMs))]]])
  /\ UNCHANGED uploadedImagePaths

\* The catch of MarkdownEditor.handleImageUpload for upload b: the failure
\* updater runs on the current buffer.
Rejected(b) ==
  /\ ContentChanged(RemovePlaceholders(content, uploads[b].placeholders), imageUrlMap)
  /\ UNCHANGED <<imageUrlMap, uploadedImagePaths>>

\* processImages resolves: uploadImages starts one uploadImage per file.
ProcessOk(b) ==
  /\ uploads[b].pc = "processing"
  /\ \E outcomes \in NormalizerOutcomes(Len(uploads[b].files)) :
       LET result == processImages(uploads[b].files, outcomes)
       IN /\ result.ok
          /\ uploads' = [uploads EXCEPT
                           ![b].pc = "uploading",
                           ![b].processed = result.processed,
                           ![b].transfers = [i \in DOMAIN result.processed |-> "inflight"]]
  /\ UNCHANGED <<content, lastInitialValue, editorContent, imageUrlMap,
                 uploadedImagePaths, signing, lastPass, signErrors, now, edits, ticks>>
  /\ UNCHANGED <<error, saveVars, listVars>>

\* processImages throws (the conversion of a HEIC file failed): no upload
\* starts, the error is rethrown and the placeholders are removed.
ProcessFail(b) ==
  /\ uploads[b].pc = "processing"
  /\ \E outcomes \in NormalizerOutcomes(Len(uploads[b].files)) :
       ~processImages(uploads[b].files, outcomes).ok
  /\ uploads' = [uploads EXCEPT ![b].pc = "done", ![b].editsAtDone = edits]
  /\ Rejected(b)
  /\ UNCHANGED <<signErrors, now, edits, ticks>>
  /\ UNCHANGED <<saveVars, listVars>>

\* The response of uploadImage for a file stored as filename, at time t.
UploadResponse(filename, t) ==
  [filename |-> filename,
   path |-> StoredPath(filename),
   url |-> WithBaseUrl([base |-> 0, path |-> filename,
                        expires |-> ExpiresAt(Digits(t + TtlMs))])]

\* result.filename || result.path
ResultKey(result) == IF result.filename # <<>> THEN result.filename ELSE result.path

\* The filenames in the opposite order of the results.
ResultKeysReversed(results) ==
  [i \in 1..Len(results) |-> ResultKey(results[Len(results) + 1 - i])]

ResultKeys(results) == [i \in 1..Len(results) |-> ResultKey(results[i])]

ResultPaths(results) == [i \in 1..Len(results) |-> results[i].path]

\* A success path that does not use the functional updater: it replaces the
\* placeholders in contentWithPlaceholders, the buffer as it was at selection.
ResolvedFromSnapshot(b, results) ==
  LET newMap == SetAll(uploads[b].urlMap,
                       [i \in 1..Len(results) |->
                          [filename |-> ResultKey(results[i]), url |-> results[i].url]])
  IN /\ uploadedImagePaths' = uploadedImagePaths \o ResultPaths(results)
     /\ imageUrlMap' = newMap
     /\ ContentChanged(
          ReplacePlaceholders(uploads[b].contentWithPlaceholders,
                              uploads[b].placeholders, ResultKeys(results)),
          newMap)

\* Editor.handleImageUpload after uploadImages resolved, then the success
\* updater of MarkdownEditor.handleImageUpload on the current buffer.
Resolved(b, results) ==
  LET newMap == SetAll(uploads[b].urlMap,
                       [i \in 1..Len(results) |->
                          [filename |-> ResultKey(results[i]), url |-> results[i].url]])
  IN /\ uploadedImagePaths' = uploadedImagePaths \o ResultPaths(results)
     /\ imageUrlMap' = newMap
     /\ ContentChanged(
          ReplacePlaceholders(content, uploads[b].placeholders, ResultKeys(results)),
          newMap)

\* The transfer of file i of upload b succeeds.  Promise.all resolves when it
\* was the last one of an upload none of whose transfers failed.
UploadOk(b, i) ==
  /\ uploads[b].transfers[i] = "inflight"
  /\ LET media == [uploads[b].media EXCEPT
                     ![i] = UploadResponse(StoredName(uploads[b].files[i], uploads[b].uploadId), now)]
         transfers == [uploads[b].transfers EXCEPT ![i] = "ok"]
         last == uploads[b].pc = "uploading" /\ \A j \in DOMAIN transfers : transfers[j] = "ok"
     IN /\ uploads' = [uploads EXCEPT ![b].media = media,
                                      ![b].transfers = transfers,
                                      ![b].editsAtDone = IF last THEN edits ELSE @,
                                      ![b].pc = IF last THEN "done" ELSE @]
        /\ IF last THEN Resolved(b, media)
           ELSE UNCHANGED <<content, lastInitialValue, editorContent, imageUrlMap,
                            uploadedImagePaths, signing, lastPass, error>>
  /\ UNCHANGED <<signErrors, now, edits, ticks>>
  /\ UNCHANGED <<saveVars, listVars>>

\* A failure that aborts the transfers still in flight.
UploadFailCancelsSiblings(b, i) ==
  /\ uploads[b].transfers[i] = "inflight"
  /\ uploads' = [uploads EXCEPT
                   ![b].transfers = [j \in DOMAIN @ |->
                                       IF @[j] = "inflight" THEN "failed" ELSE @[j]],
                   ![b].editsAtDone = IF uploads[b].pc = "uploading" THEN edits ELSE @,
                   ![b].pc = "done"]
  /\ IF uploads[b].pc = "uploading" THEN Rejected(b)
     ELSE UNCHANGED <<content, lastInitialValue, editorContent, imageUrlMap,
                      uploadedImagePaths, signing, lastPass, error>>
  /\ UNCHANGED <<signErrors, now, edits, ticks>>
  /\ UNCHANGED <<saveVars, listVars>>

\* The transfer of file i of upload b fails.  Promise.all rejects at the first
\* failure; the other transfers go on and their results are dropped.
UploadFail(b, i) ==
  /\ uploads[b].transfers[i] = "inflight"
  /\ uploads' = [uploads EXCEPT
                   ![b].transfers[i] = "failed",
                   ![b].editsAtDone = IF uploads[b].pc = "uploading" THEN edits ELSE @,
                   ![b].pc = "done"]
  /\ IF uploads[b].pc = "uploading" THEN Rejected(b)
     ELSE UNCHANGED <<content, lastInitialValue, editorContent, imageUrlMap,
                      uploadedImagePaths, signing, lastPass, error>>
  /\ UNCHANGED <<signErrors, now, edits, ticks>>
  /\ UNCHANGED <<saveVars, listVars>>

\* ------------------------------------------------------------- signing

RemoveAt(s, k) == SubSeq(s, 1, k - 1) \o SubSeq(s, k + 1, Len(s))

\* What the remote signer answers to the requests of one run.
SignResponse(requests, expires) ==
  [i \in 1..Len(requests) |->
     [filename |-> requests[i].filename,
      url |-> [base |-> 0, path |-> requests[i].filename, expires |-> expires]]]

\* A merge that writes the signed URLs into the Map object the run holds,
\* which every run and upload of the same render holds too.
SignOkInPlace(k, expires) ==
  LET merged == SetAll(signing[k].urlMap, SignResponse(signing[k].requests, expires))
      Aliased(urlMap) == IF urlMap = signing[k].urlMap THEN merged ELSE urlMap
  IN /\ imageUrlMap' = merged
     /\ signing' = RemoveAt([j \in 1..Len(signing) |->
                               [signing[j] EXCEPT !.urlMap = Aliased(@)]], k)
     /\ uploads' = [b \in 1..Len(uploads) |-> [uploads[b] EXCEPT !.urlMap = Aliased(@)]]
     /\ UNCHANGED <<content, lastInitialValue, editorContent, uploadedImagePaths,
                    lastPass, signErrors, now, edits, ticks, error, saveVars, listVars>>

\* getSignedUrls of run k resolves: the run sets imageUrlMap to the map of its
\* own render with the signed URLs added.
SignOk(k, expires) ==
  /\ imageUrlMap' = SetAll(signing[k].urlMap, SignResponse(signing[k].requests, expires))
  /\ signing' = RemoveAt(signing, k)
  /\ UNCHANGED <<content, lastInitialValue, editorContent, uploadedImagePaths,
                 uploads, lastPass, signErrors, now, edits, ticks>>
  /\ UNCHANGED <<error, saveVars, listVars>>

\* A catch that resets the map.
SignFailResetsMap(k) ==
  /\ signing' = RemoveAt(signing, k)
  /\ signErrors' = signErrors + 1
  /\ imageUrlMap' = EmptyMap
  /\ UNCHANGED <<content, lastInitialValue, editorContent,
                 uploadedImagePaths, uploads, lastPass, now, edits, ticks>>
  /\ UNCHANGED <<error, saveVars, listVars>>

\* getSignedUrls of run k rejects (one of its requests failed): the error is
\* logged and nothing else happens.
SignFail(k) ==
  /\ signing' = RemoveAt(signing, k)
  /\ signErrors' = signErrors + 1
  /\ UNCHANGED <<content, lastInitialValue, editorContent, imageUrlMap,
                 uploadedImagePaths, uploads, lastPass, now, edits, ticks>>
  /\ UNCHANGED <<error, saveVars, listVars>>

\* ------------------------------------------------------- the entries page

\* Array.prototype.slice(start, end) with 0 <= start <= end: the elements at
\* the 0-based positions start .. end - 1, as far as the array reaches.
slice(array, start, end) ==
  LET from == IF start < Len(array) THEN start ELSE Len(array)
      to == IF end < Len(array) THEN end ELSE Len(array)
  IN [i \in 1..(to - from) |-> array[from + i]]

\* A pagination that reports another page when the list ends with this one.
fetchEntriesHasMoreAtEnd(allEntries, page, pageSize) ==
  LET startIndex == (page - 1) * pageSize
      endIndex == startIndex + pageSize
  IN [entries |-> slice(allEntries, startIndex, endIndex), total |-> Len(allEntries),
      page |-> page, pageSize |-> pageSize, hasMore |-> endIndex <= Len(allEntries)]

\* fetchEntries after the server answered with allEntries.
fetchEntries(allEntries, page, pageSize) ==
  LET total == Len(allEntries)
      startIndex == (page - 1) * pageSize
      endIndex == startIndex + pageSize
      entries == slice(allEntries, startIndex, endIndex)
      hasMore == endIndex < total
  IN [entries |-> entries, total |-> total, page |-> page, pageSize |-> pageSize,
      hasMore |-> hasMore]

\* The lists the server may hold: entries, told apart by their ids, in any
\* order.
ServerLists ==
  {list \in UNION {[1..n -> 1..MaxEntries] : n \in 0..MaxEntries} :
     \A i, j \in DOMAIN list : list[i] = list[j] => i = j}

\* The entries page asks for a page and fetchEntries resolves.
EntriesFetched(page, pageSize) ==
  /\ listing' = [listing EXCEPT !.response = fetchEntries(listing.allEntries, page, pageSize)]
  /\ UNCHANGED <<content, lastInitialValue, editorContent, imageUrlMap, uploadedImagePaths,
                 uploads, signing, lastPass, signErrors, now, edits, ticks, error,
                 saveVars, viewer>>

\* ------------------------------------------------------- loading and saving

\* The entry fetchEntry gives in edit mode: one image, listed in mediaPaths.
SavedLocation == "home"
FetchedEntry ==
  [content |-> <<ImageMarkdown(Pic1)>>, location |-> SavedLocation,
   mediaPaths |-> <<StoredPath(Pic1)>>]

\* entryId is set: the Editor of EditEntryPage.
EditMode == entryLoad \in {"loading", "loaded", "failed"}
\* The Editor is on the screen; onSaveSuccess of EditEntryPage navigates away.
Mounted == entryLoad # "left"

\* loadEntryData in edit mode after fetchEntry resolved: the content, the
\* location and the media paths of the Editor are set to the entry's, and the
\* effects on content and on initialValue run.
EntryLoaded ==
  /\ entryLoad = "loading"
  /\ entryLoad' = "loaded"
  /\ LET synced == SyncInitialValue(content, FetchedEntry.content, lastInitialValue)
     IN /\ content' = synced
        /\ lastInitialValue' = IF synced = content THEN lastInitialValue
                                ELSE FetchedEntry.content
  /\ editorContent' = FetchedEntry.content
  /\ IF FetchedEntry.content = editorContent
     THEN UNCHANGED <<signing, lastPass>>
     ELSE LET pass == PassOf(FetchedEntry.content, imageUrlMap, now)
          IN /\ lastPass' = pass
             /\ signing' = signing \o Awaiting(pass, imageUrlMap)
  /\ locationTag' = FetchedEntry.location
  /\ uploadedImagePaths' = FetchedEntry.mediaPaths
  /\ UNCHANGED <<imageUrlMap, uploads, signErrors, now, edits, ticks, error,
                 isSaving, saves, listVars>>

\* loadEntryData in edit mode, fetchEntry rejected.
EntryLoadFailed ==
  /\ entryLoad = "loading"
  /\ entryLoad' = "failed"
  /\ error' = "Failed to load entry for editing"
  /\ UNCHANGED <<content, lastInitialValue, editorContent, imageUrlMap, uploadedImagePaths,
                 uploads, signing, lastPass, signErrors, now, edits, ticks,
                 isSaving, locationTag, saves, listVars>>

\* loadEntryData in create mode after getLatestLocation settled: a location
\* that was found is set; none, or a rejection, changes nothing.
LatestLocationLoaded(found) ==
  /\ entryLoad = "locating"
  /\ entryLoad' = "none"
  /\ locationTag' = IF found THEN SavedLocation ELSE locationTag
  /\ UNCHANGED <<content, lastInitialValue, editorContent, imageUrlMap, uploadedImagePaths,
                 uploads, signing, lastPass, signErrors, now, edits, ticks, error,
                 isSaving, saves, listVars>>

\* onTagsChange of the location field: setLocationTag(tags[0] || null).
SelectLocation(tag) ==
  /\ Mounted
  /\ tag # locationTag
  /\ locationTag' = tag
  /\ UNCHANGED <<content, lastInitialValue, editorContent, imageUrlMap, uploadedImagePaths,
                 uploads, signing, lastPass, signErrors, now, edits, ticks, error,
                 isSaving, saves, entryLoad, listVars>>

\* A handleSave that returns from the validation without setIsSaving(false).
handleSaveKeepsFlag ==
  /\ Mounted /\ ~isSaving
  /\ isSaving' = TRUE
  /\ IF locationTag = ""
     THEN error' = "Location is required" /\ UNCHANGED saves
     ELSE /\ Len(saves) < MaxSaves
          /\ error' = ""
          /\ saves' = Append(saves, [locationId |-> locationTag,
                                      mediaPaths |-> uploadedImagePaths,
                                      pc |-> "inflight", cleared |-> {}])
  /\ UNCHANGED <<content, lastInitialValue, editorContent, imageUrlMap, uploadedImagePaths,
                 uploads, signing, lastPass, signErrors, now, edits, ticks,
                 locationTag, entryLoad, listVars>>

\* The Save button, disabled while isSaving: handleSave up to its await.
\* Without a location it sets the error and returns; with one it sends
\* updateEntry or saveContent with the uploadedImagePaths of this render.
handleSave ==
  /\ Mounted /\ ~isSaving
  /\ IF locationTag = ""
     THEN /\ error' = "Location is required"
          /\ isSaving' = FALSE
          /\ UNCHANGED saves
     ELSE /\ Len(saves) < MaxSaves
          /\ error' = ""
          /\ isSaving' = TRUE
          /\ saves' = Append(saves, [locationId |-> locationTag,
                                      mediaPaths |-> uploadedImagePaths,
                                      pc |-> "inflight", cleared |-> {}])
  /\ UNCHANGED <<content, lastInitialValue, editorContent, imageUrlMap, uploadedImagePaths,
                 uploads, signing, lastPass, signErrors, now, edits, ticks,
                 locationTag, entryLoad, listVars>>

\* The uploads whose uploadImages has resolved.
Succeeded ==
  {b \in 1..Len(uploads) :
     uploads[b].pc = "done" /\ \A i \in DOMAIN uploads[b].transfers : uploads[b].transfers[i] = "ok"}

\* The request of save k succeeded.  In edit mode onSaveSuccess leaves the
\* page; in create mode response.success clears the form, the media paths
\* of the uploads that have succeeded by now with it.  finally: isSaving.
SaveOk(k) ==
  /\ saves[k].pc = "inflight"
  /\ isSaving' = FALSE
  /\ IF EditMode
     THEN /\ saves' = [saves EXCEPT ![k].pc = "done"]
          /\ entryLoad' = "left"
          /\ UNCHANGED <<uploadedImagePaths, locationTag>>
     ELSE /\ saves' = [saves EXCEPT ![k].pc = "done", ![k].cleared = Succeeded]
          /\ uploadedImagePaths' = <<>>
          /\ locationTag' = ""
          /\ UNCHANGED entryLoad
  /\ UNCHANGED <<content, lastInitialValue, editorContent, imageUrlMap,
                 uploads, signing, lastPass, signErrors, now, edits, ticks, error, listVars>>

\* saveContent answered with success false (create mode), or the request
\* threw (both modes): the error is set.  finally: isSaving.
SaveFailed(k, thrown) ==
  /\ saves[k].pc = "inflight"
  /\ thrown \/ ~EditMode
  /\ saves' = [saves EXCEPT ![k].pc = "done"]
  /\ error' = IF thrown THEN "An error occurred while saving" ELSE "Failed to save content"
  /\ isSaving' = FALSE
  /\ UNCHANGED <<content, lastInitialValue, editorContent, imageUrlMap, uploadedImagePaths,
                 uploads, signing, lastPass, signErrors, now, edits, ticks,
                 locationTag, entryLoad, listVars>>

SaveNext ==
  \/ EntryLoaded
  \/ EntryLoadFailed
  \/ \E found \in BOOLEAN : LatestLocationLoaded(found)
  \/ \E tag \in {"", SavedLocation} : SelectLocation(tag)
  \/ handleSave
  \/ \E k \in 1..Len(saves) : SaveOk(k)
  \/ \E k \in 1..Len(saves) : \E thrown \in BOOLEAN : SaveFailed(k, thrown)

\* ------------------------------------------------------------ the viewer

\* urlTransform of the MarkdownViewer: it has no case for "uploading-".
viewerUrlTransform(url, urlMap) ==
  IF StartsWith(url, HttpScheme) \/ StartsWith(url, HttpsScheme) THEN RawUrl(url)
  ELSE IF url \in DOMAIN urlMap THEN urlMap[url]
  ELSE RawUrl(url)

\* One run of the viewer's fetchSignedUrls effect up to its await: the
\* filenames of the content and the mediaPaths, those of them that are
\* missing, and a getSignedUrls call when there are any.
ViewerEffect(v) ==
  LET allFilenames == IF v.content = <<>> THEN <<>>
                      ELSE Dedup(extractImageFilenames(v.content) \o v.mediaPaths)
      missing == missingFilenames(allFilenames, v.imageUrlMap, now)
      pass == [missing |-> missing, requests |-> SignRequests(missing)]
  IN [v EXCEPT !.signing = @ \o Awaiting(pass, v.imageUrlMap),
               !.calls = IF missing = <<>> THEN @ ELSE @ + 1]

\* The viewer of an entry after its mount.
ViewerMounted(entryContent, mediaPaths) ==
  ViewerEffect([NoViewer EXCEPT !.content = entryContent, !.mediaPaths = mediaPaths])

\* What the remote signer may answer to the requests of one run of the
\* viewer: any of the expiry parameters, also one already within the margin,
\* under the filename asked for or under another one (the last segment of a
\* path, or the path of a filename).
ViewerSignResponse(requests, expires, renamed) ==
  [i \in 1..Len(requests) |->
     LET asked == requests[i].filename
         filename == IF ~renamed THEN asked
                     ELSE IF LastSegment(asked) # asked THEN LastSegment(asked)
                     ELSE StoredPath(asked)
     IN [filename |-> filename,
         url |-> [base |-> 0, path |-> filename, expires |-> expires]]]

ViewerSignerExpires ==
  SignerExpires(now) \cup {ExpiresAt(Digits(now + RefreshMarginMs - 1))}

\* getSignedUrls of run k of the viewer resolves: the run installs the map of
\* its render with the signed URLs added, and the effect, which depends on
\* imageUrlMap, runs again.
ViewerSignOk(k, expires, renamed) ==
  /\ viewer.calls <= MaxViewerCalls
  /\ LET run == viewer.signing[k]
         newMap == SetAll(run.urlMap, ViewerSignResponse(run.requests, expires, renamed))
     IN viewer' = ViewerEffect([viewer EXCEPT !.imageUrlMap = newMap,
                                              !.signing = RemoveAt(@, k)])
  /\ UNCHANGED <<content, lastInitialValue, editorContent, imageUrlMap, uploadedImagePaths,
                 uploads, signing, lastPass, signErrors, now, edits, ticks, error,
                 saveVars, listing>>

\* getSignedUrls of run k of the viewer rejects: the error is logged, no
\* state is set and the effect does not run again.
ViewerSignFail(k) ==
  /\ viewer' = [viewer EXCEPT !.signing = RemoveAt(@, k)]
  /\ UNCHANGED <<content, lastInitialValue, editorContent, imageUrlMap, uploadedImagePaths,
                 uploads, signing, lastPass, signErrors, now, edits, ticks, error,
                 saveVars, listing>>

ViewerNext ==
  \/ \E k \in 1..Len(viewer.signing) : \E expires \in ViewerSignerExpires :
       \E renamed \in BOOLEAN : ViewerSignOk(k, expires, renamed)
  \/ \E k \in 1..Len(viewer.signing) : ViewerSignFail(k)

UserNext ==
  \/ \E p \in 0..Len(content), tok \in TypedTokens : Type(p, tok)
  \/ \E p \in 1..Len(content) : Delete(p)

UploadNext ==
  \/ \E files \in Selections, p \in 0..Len(content) : SelectFiles(files, p)
  \/ \E b \in 1..Len(uploads) : ProcessOk(b)
  \/ \E b \in 1..Len(uploads) : ProcessFail(b)
  \/ \E b \in 1..Len(uploads) : \E i \in 1..Len(uploads[b].files) : UploadOk(b, i)
  \/ \E b \in 1..Len(uploads) : \E i \in 1..Len(uploads[b].files) : UploadFail(b, i)

SignNext ==
  \/ \E k \in 1..Len(signing) : \E e \in SignerExpires(now) : SignOk(k, e)
  \/ \E k \in 1..Len(signing) : SignFail(k)

Next == UserNext \/ UploadNext \/ Tick \/ SignNext

\* The whole editor.
Spec == Init /\ [][Next]_vars

\* A new entry: the user types and uploads images.
InitUpload == Init /\ content \in {<<>>, HelloWorld}
SpecUpload == InitUpload /\ [][UserNext \/ UploadNext]_vars

\* A new entry: the user selects files several times and does not type.
BatchNext ==
  \/ \E files \in BatchSelections, p \in 0..Len(content) :
       Select(files, p, MaxConcurrent)
  \/ \E b \in 1..Len(uploads) : ProcessOk(b)
  \/ \E b \in 1..Len(uploads) : ProcessFail(b)
  \/ \E b \in 1..Len(uploads) : \E i \in 1..Len(uploads[b].files) : UploadOk(b, i)
  \/ \E b \in 1..Len(uploads) : \E i \in 1..Len(uploads[b].files) : UploadFail(b, i)

InitBatches == Init /\ content = <<>>
SpecBatches == InitBatches /\ [][BatchNext]_vars

\* An entry with any of the image syntaxes: the user types and the scanner
\* runs on every content.
InitScan == Loaded(ScanInputs)
SpecScan == InitScan /\ [][UserNext]_vars

\* A saved entry of mixed references: the user uploads images while the
\* signed URLs are fetched, and does not type.
InitMedia == Loaded({MixedEntry})
SpecMedia == InitMedia /\ [][UploadNext \/ SignNext]_vars

\* The Editor from its mount, in create mode or in edit mode, while
\* loadEntryData awaits: the user uploads images, picks a location and saves.
InitSave ==
  /\ EditorLoaded({<<>>}) /\ NoEntriesPage
  /\ isSaving = FALSE /\ locationTag = "" /\ saves = <<>>
  /\ entryLoad \in {"locating", "loading"}
\* Uploads and signing runs act on the Editor only while it is on the screen.
MountedNext == Mounted /\ (UploadNext \/ SignNext)
SpecSave == InitSave /\ [][MountedNext \/ SaveNext]_vars

\* The entries page: any page of any size is asked for, again and again.
InitEntries ==
  /\ EditorLoaded({<<>>}) /\ FormIdle /\ viewer = NoViewer
  /\ \E allEntries \in ServerLists : listing = [NoListing EXCEPT !.allEntries = allEntries]
SpecEntries ==
  InitEntries /\ [][\E page \in 1..MaxPage, pageSize \in 1..MaxPageSize :
                      EntriesFetched(page, pageSize)]_vars

\* The entries page shows one entry in a viewer; the clock stands still.
ViewerMediaPaths == {<<>>, <<StoredPath(Pic1)>>}
InitViewer ==
  /\ EditorLoaded({<<>>}) /\ FormIdle /\ listing = NoListing
  /\ \E entryContent \in ScanInputs, mediaPaths \in ViewerMediaPaths :
       viewer = ViewerMounted(entryContent, mediaPaths)
SpecViewer == InitViewer /\ [][ViewerNext]_vars

\* A saved entry with images: the user types while the clock runs and the
\* signed URLs are fetched.
InitCache == Init /\ content = SavedEntry
SpecCache == InitCache /\ [][UserNext \/ Tick \/ SignNext]_vars

\* ------------------------------------------------- what the claims speak of

\* An image syntax token, "![...](...)".
IsImageSyntax(tok) == StartsWith(tok, <<"!", "[">>)

\* The user's text in a buffer: every token that is neither an image syntax
\* nor a line break, in buffer order.
IsText(tok) == ~IsImageSyntax(tok) /\ tok # NL
Text(buf) == SelectSeq(buf, IsText)

\* How many times the token occurs in the buffer.
Count(buf, tok) == Cardinality({i \in 1..Len(buf) : buf[i] = tok})

\* The placeholders of an upload that the buffer holds, by index.
PlaceholdersIn(buf, u) ==
  {i \in 1..Len(u.placeholders) : u.placeholders[i] \in Range(buf)}

\* The await of MarkdownEditor.handleImageUpload resolved: every transfer
\* succeeded.
AllOk(u) == \A i \in DOMAIN u.transfers : u.transfers[i] = "ok"

\* No keystroke since the files of the upload were selected.
Untouched(u) == edits = u.editsAtSelect

\* The canonical image reference of file i of an upload.
ImageOf(u, i) == ImageMarkdown(StoredName(u.files[i], u.uploadId))

\* ---------------------------------------------------------------- claims

\* C1: text the user types while an upload is in flight is never lost: the
\* step that reconciles an upload leaves the user's text in the buffer as it
\* was, token for token and in the same order, and takes away no line break
\* other than the one that follows each placeholder it removes (none when
\* the upload succeeded).
C1_TypingSurvivesReconciliation ==
  [][\A b \in 1..Len(uploads) :
       (uploads[b].pc # "done" /\ uploads'[b].pc = "done") =>
         /\ Text(content') = Text(content)
         /\ Count(content, NL) - Count(content', NL) =
              IF AllOk(uploads'[b]) THEN 0
              ELSE Cardinality(PlaceholdersIn(content, uploads[b]))
                     - Cardinality(PlaceholdersIn(content', uploads[b]))]_vars

\* C1: an upload into an empty buffer succeeded after the user typed "x" and
\* "y" while it was in flight, and both are in the buffer, in that order.
C1_Witness ==
  \E b \in 1..Len(uploads) :
    /\ uploads[b].pc = "done" /\ AllOk(uploads[b])
    /\ uploads[b].editsAtSelect = 0 /\ uploads[b].editsAtDone = 2
    /\ lastInitialValue = <<>>
    /\ Text(content) = <<<<"x">>, <<"y">>>>

C3_FailureLeavesNoPlaceholder ==
  \A b \in 1..Len(uploads) :
    (uploads[b].pc = "done" /\ ~AllOk(uploads[b])) =>
      PlaceholdersIn(content, uploads[b]) = {}

\* The image references of the saved entry.
SavedRefs == {Pic1, Pic2, PhotoJpg}

NoDuplicates(s) == \A i, j \in 1..Len(s) : s[i] = s[j] => i = j

\* The filenames a run of fetchSignedUrls asked the signer for.
Requested(run) == {run.requests[i].filename : i \in 1..Len(run.requests)}

C5_PhotoIsRequested ==
  (ImageMarkdown(PhotoJpg) \in Range(lastPass.content)
     /\ PhotoJpg \notin DOMAIN imageUrlMap) =>
    PhotoJpg \in Range(lastPass.missing)

\* C6 as the specification states it: a step that changes the map keeps
\* every entry the map held.
C6_MergeKeepsEntries ==
  [][\A f \in DOMAIN imageUrlMap : f \in DOMAIN imageUrlMap']_vars

ScenarioA(u) ==
  /\ Len(uploads) = 1
  /\ lastInitialValue = HelloWorld
  /\ u.editsAtSelect = 0 /\ edits = 0
  /\ Len(Flatten(SubstringTo(lastInitialValue, u.insertPosition))) = 6
  /\ FileNames(u.files) = <<FileA.name, FileB.name>>
  /\ u.uploadId = 1000
  /\ u.pc = "processing"

\* C9 as the specification states it: in Scenario A the buffer is the text
\* with the two placeholder lines and " world" after them.
C9_ScenarioA_SpaceBeforeWorld ==
  \A b \in 1..Len(uploads) :
    ScenarioA(uploads[b]) =>
      Str(Flatten(content)) =
        "Hello \n![Uploading a.jpg...](uploading-1000-0)\n![Uploading b.jpg...](uploading-1000-1)\n world"

\* C9: in Scenario A the buffer is "Hello ", a line break, the two placeholder
\* lines, and "world" right after the last line break: offset 6 is after the
\* space, so no space follows the placeholders.
C9_ScenarioA ==
  \A b \in 1..Len(uploads) :
    ScenarioA(uploads[b]) =>
      Str(Flatten(content)) =
        "Hello \n![Uploading a.jpg...](uploading-1000-0)\n![Uploading b.jpg...](uploading-1000-1)\nworld"

\* C9: Scenario A has happened.
C9_Witness ==
  /\ Len(uploads) = 1 /\ ScenarioA(uploads[1])
  /\ Len(content) = 7

\* The state of the upload task of file i of an upload; a failed transfer is
\* reconciled in the step that fails it.
TaskState(u, i) ==
  IF u.pc = "done" THEN "reconciled"
  ELSE IF u.pc = "processing" THEN "pending"
  ELSE IF u.transfers[i] = "ok" THEN "succeeded"
  ELSE "uploading"

TaskRank(state) ==
  IF state = "pending" THEN 0
  ELSE IF state = "uploading" THEN 1
  ELSE IF state = "succeeded" THEN 2
  ELSE 3

\* C10 as the specification states it: an upload task never moves backwards
\* through pending, uploading, succeeded or failed, reconciled; once it is
\* reconciled its placeholder is not in the buffer, its state does not
\* change and no transfer is started for it.
C10_TaskLifecycle ==
  [][\A b \in 1..Len(uploads) : \A i \in DOMAIN uploads[b].transfers :
       /\ TaskRank(TaskState(uploads'[b], i)) >= TaskRank(TaskState(uploads[b], i))
       /\ TaskState(uploads'[b], i) = "reconciled" =>
            uploads[b].placeholders[i] \notin Range(content')
       /\ TaskState(uploads[b], i) = "reconciled" =>
            /\ TaskState(uploads'[b], i) = "reconciled"
            /\ uploads'[b].transfers[i] = "inflight" =>
                 uploads[b].transfers[i] = "inflight"]_vars

FirstOccurrences(s) ==
  LET IsFirst(i) == \A j \in 1..(i - 1) : s[j] # s[i]
      firsts == {i \in 1..Len(s) : IsFirst(i)}
      Position(k) == CHOOSE i \in firsts : Cardinality({j \in firsts : j < i}) = k - 1
  IN [k \in 1..Cardinality(firsts) |-> s[Position(k)]]

\* What the specification has the scanner find in one token: the reference
\* of an image syntax when the reference itself is of the Filename class
\* (digits, a dot, a word character), nothing for a full URL, a path, a
\* placeholder or text.
ClaimedFilenames(tok) ==
  IF tok = ImageMarkdown(Pic1) THEN <<Pic1>>
  ELSE IF tok = ImageMarkdown(Pic2) THEN <<Pic2>>
  ELSE <<>>

\* What the scanner is found to take from one token: also the last path
\* segment of a full URL or of a path when that segment is of the class.
FoundFilenames(tok) ==
  IF tok = ImageMarkdown(Pic1) \/ tok = ImageMarkdown(RelPic1) THEN <<Pic1>>
  ELSE IF tok = ImageMarkdown(Pic2) THEN <<Pic2>>
  ELSE IF tok = ImageMarkdown(FullUrlGif) THEN <<<<"3", "3", ".", "g", "i", "f">>>>
  ELSE <<>>

RECURSIVE ClaimedScan(_)
ClaimedScan(markdown) ==
  IF markdown = <<>> THEN <<>>
  ELSE ClaimedFilenames(Head(markdown)) \o ClaimedScan(Tail(markdown))

RECURSIVE FoundScan(_)
FoundScan(markdown) ==
  IF markdown = <<>> THEN <<>>
  ELSE FoundFilenames(Head(markdown)) \o FoundScan(Tail(markdown))

ClaimedFresh(url, t) ==
  /\ url.expires.present
  /\ url.expires.value # <<>>
  /\ \A i \in 1..Len(url.expires.value) : IsDigit(url.expires.value[i])
  /\ t <= LeadingValue(url.expires.value, 0) - RefreshMarginMs

\* C13 as the specification states it: a pass asks again for every scanned
\* filename whose URL in the map is not fresh: one that expires within 60
\* seconds, one that has no expiry, and one whose expiry is no number.
C13_UnparsableExpiryIsRefreshed ==
  [][lastPass' # lastPass =>
       \A f \in Range(lastPass'.filenames) :
         (f \in DOMAIN imageUrlMap' /\ ~ClaimedFresh(imageUrlMap'[f], now')) =>
           f \in Range(lastPass'.missing)]_vars

\* The path the store gave file i of an upload.
PathOf(u, i) == StoredPath(StoredName(u.files[i], u.uploadId))

AbortedInNormalizer(u) ==
  u.pc = "done" /\ \A i \in DOMAIN u.transfers : u.transfers[i] = "idle"

\* C15 as the specification states it: when the conversion or the
\* compression of any file of an upload fails, processImages rejects.
C15_AnyFailureAborts ==
  \A b \in 1..Len(uploads) :
    \A outcomes \in NormalizerOutcomes(Len(uploads[b].files)) :
      (\E i \in 1..Len(uploads[b].files) :
         \/ ~outcomes[i].compresses
         \/ isHEIC(uploads[b].files[i]) /\ ~outcomes[i].converts) =>
        ~processImages(uploads[b].files, outcomes).ok

\* C15: processImages rejects exactly when the conversion of a HEIC file of
\* the upload fails, and then no transfer is started for any file of the
\* upload, also not for the files normalized before it, and nothing of the
\* upload is recorded; a failed compression aborts nothing, the file goes on
\* uncompressed.
C15_ConversionFailureAborts ==
  \A b \in 1..Len(uploads) :
    LET u == uploads[b]
    IN /\ \A outcomes \in NormalizerOutcomes(Len(u.files)) :
            processImages(u.files, outcomes).ok <=>
              \A i \in 1..Len(u.files) : isHEIC(u.files[i]) => outcomes[i].converts
       /\ u.processed = <<>> => \A i \in DOMAIN u.transfers : u.transfers[i] = "idle"
       /\ AbortedInNormalizer(u) =>
            /\ \E i \in 1..Len(u.files) : isHEIC(u.files[i])
            /\ u.processed = <<>>
            /\ \A i \in 1..Len(u.files) :
                 /\ PathOf(u, i) \notin Range(uploadedImagePaths)
                 /\ ImageOf(u, i) \notin Range(content)

\* C15: a.jpg and c.heic were selected together and the normalizer rejected
\* the upload: no transfer started, also not for a.jpg.
C15_Witness ==
  \E b \in 1..Len(uploads) :
    /\ uploads[b].files = <<FileA, FileC>>
    /\ AbortedInNormalizer(uploads[b])

\* C16: whenever processImages resolves, its list is as long as the list of
\* files and element i has the name of file i as originalName; the list an
\* upload goes on with is that list.
C16_NormalizerKeepsOrder ==
  \A b \in 1..Len(uploads) :
    LET u == uploads[b]
    IN /\ \A outcomes \in NormalizerOutcomes(Len(u.files)) :
            LET result == processImages(u.files, outcomes)
            IN result.ok =>
                 /\ Len(result.processed) = Len(u.files)
                 /\ \A i \in 1..Len(u.files) :
                      result.processed[i].originalName = u.files[i].name
       /\ u.pc = "uploading" =>
            /\ Len(u.processed) = Len(u.files)
            /\ \A i \in 1..Len(u.files) : u.processed[i].originalName = u.files[i].name

\* C16: a.jpg and c.heic were selected together and normalized, c.heic
\* converted; their transfers are in flight.
C16_Witness ==
  \E b \in 1..Len(uploads) :
    /\ uploads[b].pc = "uploading"
    /\ Len(uploads[b].processed) = 2
    /\ uploads[b].processed[1].originalName = FileA.name
    /\ uploads[b].processed[2].originalName = FileC.name
    /\ uploads[b].processed[2].converted

\* C17 as the specification states it: the step that reconciles a successful
\* upload puts into the map, for the filename of each file, the URL the
\* upload response supplied; the resolver gives that URL for the filename and
\* the pass of that step does not ask the signer for it.
C17_UploadUrlIsCached ==
  [][\A b \in 1..Len(uploads) :
       (uploads[b].pc # "done" /\ uploads'[b].pc = "done" /\ AllOk(uploads'[b])) =>
         \A i \in DOMAIN uploads[b].files :
           LET filename == StoredName(uploads[b].files[i], uploads[b].uploadId)
               response == uploads'[b].media[i]
           IN /\ response.filename = filename
              /\ filename \in DOMAIN imageUrlMap'
              /\ imageUrlMap'[filename] = response.url
              /\ urlTransform(filename, imageUrlMap') = response.url
              /\ filename \notin Range(lastPass'.missing)]_vars

\* The references of the image syntaxes of a markdown text.
ReferencesIn(markdown) ==
  {ImageUrlOf(markdown[n]) : n \in {m \in 1..Len(markdown) : IsImageSyntax(markdown[m])}}

\* The map with one more entry, keyed by the reference itself.
CacheHolding(urlMap, url) ==
  SetAll(urlMap, <<[filename |-> url,
                    url |-> [base |-> 0, path |-> url, expires |-> SignerExpires(now)]]>>)

\* The editor's half of C18: for every reference of the previewed markdown that begins with
\* "http://" or "https://" the resolver returns the reference itself, and for
\* every reference that begins with "uploading-" it returns the inline
\* "Uploading..." picture; both with the map of the state and with a map that
\* holds an entry under the reference itself.
C18_ResolverPassesThrough ==
  LET PassesThrough(url, urlMap) ==
        /\ (StartsWith(url, HttpScheme) \/ StartsWith(url, HttpsScheme))
              => urlTransform(url, urlMap) = RawUrl(url)
        /\ StartsWith(url, UploadingPrefix)
              => urlTransform(url, urlMap) = RawUrl(LoadingDataUrl)
  IN \A url \in ReferencesIn(editorContent) :
       /\ PassesThrough(url, imageUrlMap)
       /\ PassesThrough(url, CacheHolding(imageUrlMap, url))

\* The preview shows a full URL and the placeholder of an upload in flight
\* while the map holds signed URLs.
C18_Witness ==
  /\ Len(uploads) = 1 /\ uploads[1].pc = "uploading"
  /\ FullUrlGif \in ReferencesIn(editorContent)
  /\ \E url \in ReferencesIn(editorContent) :
       /\ StartsWith(url, UploadingPrefix)
       /\ urlTransform(url, imageUrlMap) = RawUrl(LoadingDataUrl)
  /\ Pic1 \in DOMAIN imageUrlMap
  /\ urlTransform(FullUrlGif, imageUrlMap) = RawUrl(FullUrlGif)

\* The filenames the upload responses of the uploads that succeeded named.
UploadedFilenames ==
  UNION {{StoredName(uploads[b].files[i], uploads[b].uploadId) : i \in DOMAIN uploads[b].files} :
           b \in {c \in 1..Len(uploads) : uploads[c].pc = "done" /\ AllOk(uploads[c])}}

IsPlaceholderRef(ref) == StartsWith(ref, UploadingPrefix)
IsFullUrl(ref) == StartsWith(ref, HttpScheme) \/ StartsWith(ref, HttpsScheme)

Failed(u) == u.pc = "done" /\ ~AllOk(u)

\* C20: the step in which an upload fails leaves the map as it was, and no
\* filename of a failed upload is ever a key of the map, whatever the sign
\* responses and the upload's other transfers do before and after.
C20_FailureAddsNoEntry ==
  /\ [](\A b \in 1..Len(uploads) :
          Failed(uploads[b]) =>
            \A i \in DOMAIN uploads[b].files :
              StoredName(uploads[b].files[i], uploads[b].uploadId) \notin DOMAIN imageUrlMap)
  /\ [][\A b \in 1..Len(uploads) :
          (uploads'[b] # uploads[b] /\ Failed(uploads'[b])) => imageUrlMap' = imageUrlMap]_vars

\* An upload of two files failed after one of its transfers had succeeded,
\* and the map holds what a sign response put there.
C20_Witness ==
  /\ Len(uploads) = 1 /\ Failed(uploads[1])
  /\ uploads[1].transfers = <<"ok", "failed">>
  /\ DOMAIN imageUrlMap = {Pic1, LastSegment(FullUrlGif)}

\* C21: a step that installs another map changes no map that a run of
\* fetchSignedUrls still in flight or an upload holds from its render: the
\* runs that remain hold what they held, a run started by the step holds
\* the map of its render, and every upload holds the map it was started
\* with.
C21_UpdateLeavesHeldMapsAlone ==
  [][imageUrlMap' # imageUrlMap =>
       /\ \A b \in 1..Len(uploads) : uploads'[b].urlMap = uploads[b].urlMap
       /\ \/ \E k \in 1..Len(signing) : signing' = RemoveAt(signing, k)
          \/ SubSeq(signing', 1, Len(signing)) = signing]_vars

\* A sign response was merged while an upload started in the render of the
\* empty map is in flight: the upload still holds the empty map.
C21_Witness ==
  /\ Len(uploads) = 1 /\ uploads[1].pc = "uploading"
  /\ uploads[1].urlMap = EmptyMap
  /\ DOMAIN imageUrlMap = {Pic1, LastSegment(FullUrlGif)}

\* C22: the step that reconciles an upload all of whose transfers succeeded,
\* in whatever order they completed, changes the buffer at the placeholders
\* of the upload only: the placeholder of file i becomes the image syntax of
\* the filename stored for file i, and element i of the normalizer's list
\* and result i of the transfers are those of file i.
C22_PlaceholderBecomesItsImage ==
  [][\A b \in 1..Len(uploads) :
       (uploads[b].pc # "done" /\ uploads'[b].pc = "done" /\ AllOk(uploads'[b])) =>
         LET u == uploads'[b]
             IndexOf(tok) == {i \in DOMAIN u.placeholders : u.placeholders[i] = tok}
         IN /\ Len(content') = Len(content)
            /\ \A n \in 1..Len(content) :
                 content'[n] = IF IndexOf(content[n]) = {} THEN content[n]
                               ELSE ImageOf(u, CHOOSE i \in IndexOf(content[n]) : TRUE)
            /\ \A i \in DOMAIN u.files :
                 /\ u.placeholders[i] = Placeholder(u.files[i].name, u.uploadId, i - 1)
                 /\ u.placeholders[i] \in Range(content)
                 /\ u.processed[i].originalName = u.files[i].name
                 /\ u.media[i].filename = StoredName(u.files[i], u.uploadId)]_vars

\* The second of two uploads of two files succeeded, its second transfer
\* before its first or not, while the second transfer of the first upload
\* has completed before its first: the buffer holds the images of the second
\* upload in the order of the selection.
C22_Witness ==
  /\ Len(uploads) = 2
  /\ uploads[1].transfers = <<"inflight", "ok">>
  /\ uploads[2].pc = "done" /\ AllOk(uploads[2]) /\ Len(uploads[2].files) = 2
  /\ \E m, n \in 1..Len(content) :
       /\ m < n
       /\ content[m] = ImageOf(uploads[2], 1)
       /\ content[n] = ImageOf(uploads[2], 2)

\* C23 as the specification states it: the name the normalizer generates
\* for each file of an upload is of the class the scanner recognizes, so the
\* scanner returns it from the image syntax that refers to it.
C23_GeneratedNamesAreScanned ==
  \A b \in 1..Len(uploads) :
    \A i \in DOMAIN uploads[b].processed :
      \A randomStr \in RandomStrs :
        LET newName == generateUniqueFilename(ProcessedName(uploads[b].files[i]),
                                              uploads[b].uploadId, randomStr)
        IN /\ LooksLikeTimestamp(newName)
           /\ extractImageFilenames(<<ImageMarkdown(newName)>>) = <<newName>>

\* C24 as the specification states it: when every run of fetchSignedUrls has
\* been answered without an error and every upload has completed, the map
\* holds an entry for each filename the signer was asked for and for each
\* file of each upload that succeeded.
C24_NoEntryIsLost ==
  (signing = <<>> /\ signErrors = 0 /\ \A b \in 1..Len(uploads) : uploads[b].pc = "done") =>
    /\ UploadedFilenames \subseteq DOMAIN imageUrlMap
    /\ {Pic1, LastSegment(FullUrlGif)} \subseteq DOMAIN imageUrlMap

\* C27: the step in which files are selected with the cursor at offset p
\* makes the buffer the old buffer up to p, then a line break, the
\* placeholders joined by line breaks and a line break, then the old buffer
\* from p on; taking that block out of the new buffer gives the old one.
C27_InsertionOnlyAdds ==
  [][Len(uploads') = Len(uploads) + 1 =>
       LET u == uploads'[Len(uploads')]
           p == u.insertPosition
           block == <<NL>> \o JoinLines(u.placeholders) \o <<NL>>
       IN /\ u.placeholders = PlaceholderData(FileNames(u.files), u.uploadId)
          /\ content' = SubSeq(content, 1, p) \o block \o SubSeq(content, p + 1, Len(content))
          /\ SubSeq(content', 1, p) \o SubSeq(content', p + Len(block) + 1, Len(content'))
               = content]_vars

\* Two files were selected with the cursor inside text the user had typed:
\* the placeholders stand between the two typed characters.
C27_Witness ==
  /\ Len(uploads) = 1 /\ uploads[1].pc = "processing"
  /\ uploads[1].insertPosition = 1 /\ Len(uploads[1].files) = 2
  /\ edits = 2 /\ Untouched(uploads[1])
  /\ Len(content) = 7
  /\ content[1] = <<"x">> /\ content[7] = <<"y">>
  /\ content[3] = uploads[1].placeholders[1] /\ content[5] = uploads[1].placeholders[2]

\* C18 as the specification states it, for the resolver of the editor and
\* the resolver of the viewer: for every reference of the entry shown, a
\* reference that begins with "http://" or "https://" is returned unchanged
\* and one that begins with "uploading-" gives the inline "Uploading..."
\* picture, whatever the map holds.
C18_BothResolversPassThrough ==
  \A url \in ReferencesIn(viewer.content) :
    /\ IsFullUrl(url) =>
         /\ urlTransform(url, viewer.imageUrlMap) = RawUrl(url)
         /\ viewerUrlTransform(url, viewer.imageUrlMap) = RawUrl(url)
    /\ IsPlaceholderRef(url) =>
         /\ urlTransform(url, viewer.imageUrlMap) = RawUrl(LoadingDataUrl)
         /\ viewerUrlTransform(url, viewer.imageUrlMap) = RawUrl(LoadingDataUrl)

\* C25 as the specification states it: for every reference of the content
\* from which the scanner takes a filename, once the map holds the signed
\* URL of that filename the resolver, the viewer's and the editor's, gives
\* that URL for the reference.
C25_ScannerAndResolverAgree ==
  \A ref \in ReferencesIn(viewer.content) :
    LET filename == LastSegment(ref)
    IN (extractImageFilenames(<<ImageMarkdown(ref)>>) = <<filename>>
          /\ filename \in DOMAIN viewer.imageUrlMap) =>
         /\ viewerUrlTransform(ref, viewer.imageUrlMap) = viewer.imageUrlMap[filename]
         /\ urlTransform(ref, viewer.imageUrlMap) = viewer.imageUrlMap[filename]

\* C26 as the specification states it: with the content, the mediaPaths and
\* the clock fixed, no step in which a run of the viewer ends, whatever the
\* signer answered, makes the viewer call getSignedUrls again.
C26_ViewerReachesQuiescence ==
  [][viewer'.calls = viewer.calls]_vars

\* C28 as the specification states it: the media paths sent with a save hold
\* the path of every file of every upload that has succeeded and was not
\* cleared by an earlier successful save, each once, and no path of
\* an upload that failed.
C28_SaveSendsEveryUploadedPath ==
  [][Len(saves') = Len(saves) + 1 =>
       LET sent == saves'[Len(saves')].mediaPaths
           clearedBefore == UNION {saves[k].cleared : k \in 1..Len(saves)}
       IN /\ \A b \in Succeeded \ clearedBefore :
               \A i \in 1..Len(uploads[b].media) :
                 Cardinality({n \in 1..Len(sent) : sent[n] = uploads[b].media[i].path}) = 1
          /\ \A b \in (1..Len(uploads)) \ Succeeded :
               \A i \in 1..Len(uploads[b].files) :
                 \A n \in 1..Len(sent) :
                   sent[n] # StoredPath(StoredName(uploads[b].files[i], uploads[b].uploadId))
    ]_vars

\* C29: every request handleSave sent carries a location; a click on Save
\* with no location sends nothing, sets the error "Location is required" and
\* leaves isSaving false; and isSaving is true exactly while a request of
\* handleSave is in flight, so it is false after every attempt has ended.
C29_SaveValidatesAndReleases ==
  /\ [](/\ \A k \in 1..Len(saves) : saves[k].locationId # ""
        /\ isSaving <=> \E k \in 1..Len(saves) : saves[k].pc = "inflight")
  /\ [][(handleSave /\ locationTag = "") =>
          /\ saves' = saves
          /\ error' = "Location is required"
          /\ isSaving' = FALSE]_vars

\* A save was sent and has succeeded, which cleared the location; the next
\* click on Save was refused for the missing location, and the button is
\* enabled.
C29_Witness ==
  /\ Len(saves) = 1 /\ saves[1].pc = "done"
  /\ locationTag = ""
  /\ error = "Location is required"
  /\ ~isSaving

\* C30: what fetchEntries returned for page and pageSize holds exactly the
\* server's entries at the 0-based positions (page-1)*pageSize up to but
\* excluding page*pageSize, in the server's order; total is the length of the
\* server's list; hasMore is true exactly when page*pageSize < total.
C30_PageOfEntries ==
  LET r == listing.response
      all == listing.allEntries
      positions == {p \in 0..(Len(all) - 1) :
                      (r.page - 1) * r.pageSize <= p /\ p < r.page * r.pageSize}
  IN r.page >= 1 =>
       /\ Len(r.entries) = Cardinality(positions)
       /\ \A p \in positions : r.entries[p - (r.page - 1) * r.pageSize + 1] = all[p + 1]
       /\ r.total = Len(all)
       /\ r.hasMore <=> r.page * r.pageSize < r.total

\* The last page of a list of four in pages of three: one entry, no more.
C30_Witness ==
  /\ Len(listing.allEntries) = 4
  /\ listing.response.page = 2 /\ listing.response.pageSize = 3
  /\ listing.response.entries = <<listing.allEntries[4]>>
  /\ ~listing.response.hasMore

====
